---------------------------- MODULE Spec2Model ----------------------------
(***************************************************************************)
(* Model of app/labeling.py (VideoMarkUp): the sequence-annotation store   *)
(* (load_sequences, adding_sequences, show_sequences, the removal filter   *)
(* of labeling, save_sequences), the render pass of labeling, the frame    *)
(* grid of labeling/show_images and the mosaic of canvas.                  *)
(*                                                                         *)
(* Python lists are sequences; a Python index i is position i + 1 here.    *)
(* A dict is a function whose DOMAIN is the dict's key set.                *)
(***************************************************************************)
EXTENDS Integers, Sequences, FiniteSets, TLC

VARIABLES
    \* ---- the render pass of labeling (Spec)
    file,        \* the annotation file: NoFile, or the JSON object written last
    sequences,   \* labeling's `sequences` when the pass ended (after save)
    loaded,      \* what load_sequences returned in the last pass
    track_id,    \* the track chosen in the sidebar during the last pass
    view,        \* the rows show_sequences drew in the last pass: <<i, record>>
    event,       \* the widget event the last pass processed
    deleted,     \* the records the last pass filtered out of the track's list
    \* ---- the store operations applied to an arbitrary store (SpecStore)
    s_store,     \* the store the operation is applied to
    s_op,        \* the operation and its arguments
    s_out,       \* its result
    \* ---- the frame grid (SpecGrid)
    g_in,        \* rows, cols, stride, frame_no, number of frames
    g_cells,     \* the cells addressed, in drawing order
    \* ---- the mosaic (SpecCanvas)
    c_in,        \* number of frames, n, size
    c_idx,       \* the loop index of canvas
    c_image,     \* the canvas pixels
    c_pc         \* "loop" | "done"

vars == <<file, sequences, loaded, track_id, view, event, deleted,
          s_store, s_op, s_out, g_in, g_cells, c_in, c_idx, c_image, c_pc>>

passVars   == <<file, sequences, loaded, track_id, view, event, deleted>>
storeVars  == <<s_store, s_op, s_out>>
gridVars   == <<g_in, g_cells>>
canvasVars == <<c_in, c_idx, c_image, c_pc>>

-----------------------------------------------------------------------------
(* Bounds of the model and the value sets the inputs are drawn from.       *)

MaxLen  == 3      \* longest list of an arbitrary store (SpecStore)
MaxSeqs == 3      \* longest list a track reaches in the render passes (Spec)
MaxRows == 2      \* "Number of rows" (SpecGrid)
MaxCols == 4      \* "Number of images per row" (SpecGrid)
MaxStride == 2    \* "Stride" (SpecGrid)
MaxFrames == 4    \* frames of the track (SpecGrid)
MaxN == 3         \* tiles per side of the canvas (SpecCanvas)
MaxSize == 2      \* pixels per side of a tile (SpecCanvas)
MaxCanvasFrames == 10   \* frames handed to canvas (SpecCanvas)

TrackIds       == {5, 10}
FrameNos       == {0, 12}
VisibleNumbers == {-1, 3}

\* st.number_input values of one "Add this sequence": (first, last, visible)
AddInputs == {<<0, 12, -1>>, <<12, 0, 3>>}

\* the records the lists of an arbitrary store are made of
Records == {<<0, 12, 5, -1>>, <<12, 0, 5, 3>>, <<12, 12, 10, 3>>, <<0, 0, 10, -1>>}

\* the records the lists that are sorted are made of
SortRecords == {<<f, l, t, v>> : f \in FrameNos, l \in FrameNos,
                                 t \in TrackIds, v \in VisibleNumbers}

RECURSIVE SeqsUpTo(_, _)
SeqsUpTo(S, n) ==
    IF n = 0 THEN {<<>>}
    ELSE LET shorter == SeqsUpTo(S, n - 1)
         IN  shorter \cup {Append(s, x) : s \in {q \in shorter : Len(q) = n - 1}, x \in S}

Max(a, b) == IF a >= b THEN a ELSE b
Min(a, b) == IF a <= b THEN a ELSE b

EmptyStore == [t \in {} |-> <<>>]
NoFile == [exists |-> FALSE, text |-> <<>>]     \* os.path.exists(file) is False
FileWith(text) == [exists |-> TRUE, text |-> text]

-----------------------------------------------------------------------------
(* JSON text of integers: str(int) for the keys json.dump writes, the      *)
(* number tokens of the arrays, and int(str) / the JSON number parser.     *)

DigitChars == <<"0", "1", "2", "3", "4", "5", "6", "7", "8", "9">>

DigitValue(c) == (CHOOSE i \in 1..10 : DigitChars[i] = c) - 1

RECURSIVE NatToStr(_)
NatToStr(n) ==
    IF n < 10 THEN <<DigitChars[n + 1]>>
    ELSE Append(NatToStr(n \div 10), DigitChars[(n % 10) + 1])

IntToStr(n) == IF n < 0 THEN <<"-">> \o NatToStr(-n) ELSE NatToStr(n)

RECURSIVE StrToNat(_)
StrToNat(s) ==
    IF Len(s) = 0 THEN 0
    ELSE 10 * StrToNat(SubSeq(s, 1, Len(s) - 1)) + DigitValue(s[Len(s)])

\* mutant: the sign of the number is dropped
StrToInt_unsigned(s) == IF s[1] = "-" THEN StrToNat(Tail(s)) ELSE StrToNat(s)

StrToInt(s) == IF s[1] = "-" THEN -StrToNat(Tail(s)) ELSE StrToNat(s)

\* a list of integers as JSON number tokens, and back
RECURSIVE DumpNumbers(_, _)
DumpNumbers(rec, n) ==
    IF n = 0 THEN <<>> ELSE Append(DumpNumbers(rec, n - 1), IntToStr(rec[n]))

RECURSIVE LoadNumbers(_, _)
LoadNumbers(toks, n) ==
    IF n = 0 THEN <<>> ELSE Append(LoadNumbers(toks, n - 1), StrToInt(toks[n]))

\* a list of records as a JSON array of arrays, and back
RECURSIVE DumpArray(_, _)
DumpArray(L, n) ==
    IF n = 0 THEN <<>>
    ELSE Append(DumpArray(L, n - 1), DumpNumbers(L[n], Len(L[n])))

RECURSIVE LoadArray(_, _)
LoadArray(arr, n) ==
    IF n = 0 THEN <<>>
    ELSE Append(LoadArray(arr, n - 1), LoadNumbers(arr[n], Len(arr[n])))

\* json.dump of a dict {int: [[int, int, int, int], ...]}: keys become str(key)
RECURSIVE DumpObject(_, _)
DumpObject(store, keys) ==
    IF keys = {} THEN EmptyStore
    ELSE LET t == CHOOSE u \in keys : TRUE
         IN  (IntToStr(t) :> DumpArray(store[t], Len(store[t])))
                 @@ DumpObject(store, keys \ {t})

json_dump(store) == DumpObject(store, DOMAIN store)

\* json.load: an object with string keys, arrays of arrays of integers
RECURSIVE LoadObject(_, _)
LoadObject(text, keys) ==
    IF keys = {} THEN EmptyStore
    ELSE LET ks == CHOOSE u \in keys : TRUE
         IN  (ks :> LoadArray(text[ks], Len(text[ks])))
                 @@ LoadObject(text, keys \ {ks})

json_load(text) == LoadObject(text, DOMAIN text)

\* {int(track_id): val for track_id, val in obj.items()}
RECURSIVE IntKeys(_, _)
IntKeys(obj, keys) ==
    IF keys = {} THEN EmptyStore
    ELSE LET ks == CHOOSE u \in keys : TRUE
         IN  (StrToInt(ks) :> obj[ks]) @@ IntKeys(obj, keys \ {ks})

save_sequences(store) == FileWith(json_dump(store))

load_sequences(f) ==
    IF ~f.exists THEN EmptyStore
    ELSE LET obj == json_load(f.text)
         IN  IntKeys(obj, DOMAIN obj)

-----------------------------------------------------------------------------
(* The store operations.                                                   *)

\* mutant: an equal record already in the list is not added again
adding_sequences_dedup(store, t, button, first_frame, last_frame, visible_number) ==
    IF ~button THEN store
    ELSE LET withKey == IF t \in DOMAIN store THEN store ELSE (t :> <<>>) @@ store
             rec == <<first_frame, last_frame, t, visible_number>>
         IN  IF \E i \in 1..Len(withKey[t]) : withKey[t][i] = rec THEN withKey
             ELSE [withKey EXCEPT ![t] = Append(@, rec)]

\* mutant: the record's last two fields are written in the wrong order
adding_sequences_swapped(store, t, button, first_frame, last_frame, visible_number) ==
    IF ~button THEN store
    ELSE LET withKey == IF t \in DOMAIN store THEN store ELSE (t :> <<>>) @@ store
         IN  [withKey EXCEPT ![t] =
                 Append(@, <<first_frame, last_frame, visible_number, t>>)]

\* adding_sequences: `button` is st.button("Add this sequence")
adding_sequences(store, t, button, first_frame, last_frame, visible_number) ==
    IF ~button THEN store
    ELSE LET withKey == IF t \in DOMAIN store THEN store ELSE (t :> <<>>) @@ store
         IN  [withKey EXCEPT ![t] =
                 Append(@, <<first_frame, last_frame, t, visible_number>>)]

\* Python's `a < b` on two lists of integers
RECURSIVE ListLess(_, _)
ListLess(a, b) ==
    IF Len(a) = 0 THEN Len(b) > 0
    ELSE IF Len(b) = 0 THEN FALSE
    ELSE IF a[1] # b[1] THEN a[1] < b[1]
    ELSE ListLess(Tail(a), Tail(b))

\* key=lambda x: x[1] of show_sequences: does pair p sort strictly before q
KeyLess(p, q) == ListLess(p[2], q[2])

\* one step of a stable sort: p goes after every pair that is not greater
SortedInsert(s, p) ==
    LET n == Cardinality({j \in 1..Len(s) : ~KeyLess(p, s[j])})
    IN  SubSeq(s, 1, n) \o <<p>> \o SubSeq(s, n + 1, Len(s))

\* sorted(enumerate(L), key=lambda x: x[1])
RECURSIVE SortedEnumerate(_, _)
SortedEnumerate(L, n) ==
    IF n = 0 THEN <<>>
    ELSE SortedInsert(SortedEnumerate(L, n - 1), <<n - 1, L[n]>>)

\* mutant: s[:k], the first k of the sorted rows
LastK_first(s, k) == SubSeq(s, 1, Min(k, Len(s)))

\* s[-k:]
LastK(s, k) == IF k = 0 THEN s ELSE SubSeq(s, Max(1, Len(s) - k + 1), Len(s))

\* remove.append(i) for every row drawn whose button returns True
RECURSIVE Pressed(_, _, _)
Pressed(rows, n, buttons) ==
    IF n = 0 THEN <<>>
    ELSE IF rows[n][1] \in buttons
         THEN Append(Pressed(rows, n - 1, buttons), rows[n][1])
         ELSE Pressed(rows, n - 1, buttons)

\* show_sequences: `buttons` is the set of i whose st.button(key=remove_i)
\* returns True in this pass.  shown: the rows drawn; remove: the result.
show_sequences(store, t, k, buttons) ==
    IF t \notin DOMAIN store THEN [shown |-> <<>>, remove |-> <<>>]
    ELSE LET rows == LastK(SortedEnumerate(store[t], Len(store[t])), k)
         IN  [shown |-> rows, remove |-> Pressed(rows, Len(rows), buttons)]

Elems(s) == {s[j] : j \in 1..Len(s)}

ListOf(store, t) == IF t \in DOMAIN store THEN store[t] ELSE <<>>

\* [seq for i, seq in enumerate(L) if i not in set(remove_indices)]
RECURSIVE FilterIndices(_, _, _)
FilterIndices(L, n, removeSet) ==
    IF n = 0 THEN <<>>
    ELSE IF (n - 1) \in removeSet THEN FilterIndices(L, n - 1, removeSet)
    ELSE Append(FilterIndices(L, n - 1, removeSet), L[n])

\* mutant: `del L[i]` for each index in turn, positions shifting as it goes
RECURSIVE PopEach(_, _)
PopEach(L, idxs) ==
    IF Len(idxs) = 0 THEN L
    ELSE LET i == idxs[1]
             rest == IF i < Len(L) THEN SubSeq(L, 1, i) \o SubSeq(L, i + 2, Len(L)) ELSE L
         IN  PopEach(rest, Tail(idxs))

remove_sequences_pop(store, t, remove_indices) ==
    IF Len(remove_indices) > 0 /\ t \in DOMAIN store
    THEN [store EXCEPT ![t] = PopEach(@, remove_indices)]
    ELSE store

\* labeling, lines 46-47
remove_sequences(store, t, remove_indices) ==
    IF Len(remove_indices) > 0 /\ t \in DOMAIN store
    THEN [store EXCEPT ![t] = FilterIndices(@, Len(@), Elems(remove_indices))]
    ELSE store

lastk == 5      \* show_sequences(sequences, track_id, lastk=5)

-----------------------------------------------------------------------------
(* One render pass of labeling, lines 34-49: load, add, list, remove,      *)
(* save.  addButton / addArgs: the "Add this sequence" button and the      *)
(* three number inputs; buttons: the Remove buttons that return True.      *)

\* the <<i, record>> entries of L at the indices of remove_indices
RECURSIVE RowsAt(_, _, _)
RowsAt(L, remove_indices, n) ==
    IF n = 0 THEN <<>>
    ELSE Append(RowsAt(L, remove_indices, n - 1),
                <<remove_indices[n], L[remove_indices[n] + 1]>>)

\* mutant: save_sequences is called before the removal is applied
labeling_save_first(f, trk, addButton, addArgs, buttons) ==
    LET ld      == load_sequences(f)
        added   == adding_sequences(ld, trk, addButton, addArgs[1], addArgs[2], addArgs[3])
        listing == show_sequences(added, trk, lastk, buttons)
        kept    == remove_sequences(added, trk, listing.remove)
    IN  [loaded    |-> ld,
         view      |-> listing.shown,
         deleted   |-> RowsAt(ListOf(added, trk), listing.remove, Len(listing.remove)),
         sequences |-> kept,
         file      |-> save_sequences(added)]

labeling(f, trk, addButton, addArgs, buttons) ==
    LET ld      == load_sequences(f)
        added   == adding_sequences(ld, trk, addButton, addArgs[1], addArgs[2], addArgs[3])
        listing == show_sequences(added, trk, lastk, buttons)
        kept    == remove_sequences(added, trk, listing.remove)
    IN  [loaded    |-> ld,
         view      |-> listing.shown,
         deleted   |-> RowsAt(ListOf(added, trk), listing.remove, Len(listing.remove)),
         sequences |-> kept,
         file      |-> save_sequences(kept)]

-----------------------------------------------------------------------------
(* The frame grid: show_images and the rows loop of labeling.  `frames` is *)
(* the track's array, a frame being named by its position in the archive.  *)

DisplayWidth == 800        \* hsize = wsize = 800 // N
ImagesPerRowMin == 9       \* the "Number of images per row" slider's min_value

FramesOf(n) == [i \in 1..n |-> i - 1]

\* frames[idx] of a numpy array: a negative idx counts from the end
FrameAt(frames, idx) ==
    IF 0 <= idx /\ idx < Len(frames) THEN [kind |-> "frame", of |-> frames[idx + 1]]
    ELSE IF -Len(frames) <= idx /\ idx < 0
         THEN [kind |-> "frame", of |-> frames[Len(frames) + idx + 1]]
         ELSE [kind |-> "IndexError", of |-> -1]

\* mutant: the lower bound is not tested
get_frame_no_lower(rel_no, frame_no, frames, N) ==
    LET abs_no == rel_no + frame_no
        hsize  == DisplayWidth \div N
        wsize  == DisplayWidth \div N
    IN  IF abs_no >= Len(frames)
        THEN [kind |-> "zeros", of |-> -1, shape |-> <<hsize, wsize, 3>>]
        ELSE [kind  |-> FrameAt(frames, abs_no).kind,
              of    |-> FrameAt(frames, abs_no).of,
              shape |-> <<wsize, hsize, 3>>]

\* get_frame of show_images; cv2.resize(frame, (hsize, wsize)) gives an
\* array of wsize rows and hsize columns
get_frame(rel_no, frame_no, frames, N) ==
    LET abs_no == rel_no + frame_no
        hsize  == DisplayWidth \div N
        wsize  == DisplayWidth \div N
    IN  IF abs_no < 0 \/ abs_no >= Len(frames)
        THEN [kind |-> "zeros", of |-> -1, shape |-> <<hsize, wsize, 3>>]
        ELSE [kind  |-> FrameAt(frames, abs_no).kind,
              of    |-> FrameAt(frames, abs_no).of,
              shape |-> <<wsize, hsize, 3>>]

\* get_caption of show_images with show_caption=True: the arrow or str(abs_no)
get_caption(rel_no, frame_no, frame_arrow) ==
    IF rel_no # 0 \/ ~frame_arrow
    THEN [arrow |-> FALSE, text |-> IntToStr(rel_no + frame_no)]
    ELSE [arrow |-> TRUE, text |-> <<>>]

\* mutant: the centre column is N // 2
rel_no_of_half(i, N, stride) == (i - N \div 2) * stride

\* rel_no = (i - (N - 1) // 2) * stride
rel_no_of(i, N, stride) == (i - (N - 1) \div 2) * stride

\* show_images: the cells of columns 0 .. n-1 of one row, in drawing order
RECURSIVE show_images(_, _, _, _, _, _)
show_images(frame_no, frames, N, stride, frame_arrow, n) ==
    IF n = 0 THEN <<>>
    ELSE LET i      == n - 1
             rel_no == rel_no_of(i, N, stride)
         IN  Append(show_images(frame_no, frames, N, stride, frame_arrow, n - 1),
                    [col     |-> i,
                     abs_no  |-> rel_no + frame_no,
                     image   |-> get_frame(rel_no, frame_no, frames, N),
                     caption |-> get_caption(rel_no, frame_no, frame_arrow)])

\* labeling, lines 29-32: rows 0 .. n-1, each cell tagged with its row
RECURSIVE grid_rows(_, _, _, _, _)
grid_rows(frame_no, frames, images_per_row, stride, n) ==
    IF n = 0 THEN <<>>
    ELSE LET row          == n - 1
             row_frame_no == frame_no + row * images_per_row * stride
             cells        == show_images(row_frame_no, frames, images_per_row, stride,
                                         row = 0, images_per_row)
         IN  grid_rows(frame_no, frames, images_per_row, stride, n - 1)
                 \o [c \in 1..Len(cells) |->
                        [row |-> row, col |-> cells[c].col, abs_no |-> cells[c].abs_no,
                         image |-> cells[c].image, caption |-> cells[c].caption]]

\* labeling, lines 40-42: the detailed view, one row with stride 1
detailed_view(detailed_frame_no, frames, images_per_row) ==
    LET cells == show_images(detailed_frame_no, frames, images_per_row, 1, TRUE,
                             images_per_row)
    IN  [c \in 1..Len(cells) |->
            [row |-> 0, col |-> cells[c].col, abs_no |-> cells[c].abs_no,
             image |-> cells[c].image, caption |-> cells[c].caption]]

-----------------------------------------------------------------------------
(* canvas: the image is a function from <<row, column>> to a pixel; a      *)
(* pixel is -1 while it holds the initial zero and idx once frame idx has  *)
(* been copied over it.  Frames are size x size, as the caller guarantees. *)

\* np.zeros((size*n, size*n, 3))
Zeros(n, size) ==
    [px \in (0..(size * n - 1)) \X (0..(size * n - 1)) |-> -1]

\* mutant: row and column of the tile exchanged
TileOf_swapped(idx, n) == <<idx % n, idx \div n>>

\* i, j = idx // n, idx % n
TileOf(idx, n) == <<idx \div n, idx % n>>

\* the slice a:b of an axis of length len, as numpy clips it
Slice(a, b, len) == Min(a, len)..(Min(b, len) - 1)

\* image[i*size:(i+1)*size, j*size:(j+1)*size] = img: the region must have
\* the frame's shape, or numpy raises ValueError
SliceAssign(image, n, size, idx) ==
    LET i    == TileOf(idx, n)[1]
        j    == TileOf(idx, n)[2]
        rows == Slice(i * size, (i + 1) * size, size * n)
        cols == Slice(j * size, (j + 1) * size, size * n)
    IN  IF Cardinality(rows) = size /\ Cardinality(cols) = size
        THEN [ok |-> TRUE,
              image |-> [px \in DOMAIN image |->
                            IF px[1] \in rows /\ px[2] \in cols THEN idx ELSE image[px]]]
        ELSE [ok |-> FALSE, image |-> image]

-----------------------------------------------------------------------------
(* Initial values of the variables a specification does not use.           *)

PassIdle ==
    /\ file = NoFile /\ sequences = EmptyStore /\ loaded = EmptyStore
    /\ track_id = 0 /\ view = <<>> /\ deleted = <<>>
    /\ event = [kind |-> "start", arg |-> <<>>, shown |-> <<>>]

StoreIdle ==
    /\ s_store = EmptyStore /\ s_out = <<>>
    /\ s_op = [name |-> "idle", t |-> 0, arg |-> <<>>]

GridIdle ==
    /\ g_cells = <<>>
    /\ g_in = [mode |-> "idle", n_rows |-> 0, images_per_row |-> 0, stride |-> 0,
               n_frames |-> 0, frame_no |-> 0]

CanvasIdle ==
    /\ c_in = [m |-> 0, n |-> 0, size |-> 0]
    /\ c_idx = 0 /\ c_image = <<>> /\ c_pc = "idle"

-----------------------------------------------------------------------------
(* SpecStore: add, remove and save/load applied to an arbitrary store.     *)
(* SpecRecent: the listing of show_sequences applied to an arbitrary list. *)

Lists == SeqsUpTo(Records, MaxLen)

OtherLists == {<<>>, <<<<0, 12, 5, -1>>>>, <<<<12, 12, 10, 3>>>>}

\* stores with one "full" list and, possibly, a second key with a short list
StoreInputs ==
    {EmptyStore}
    \cup {[u \in {t} |-> L] : t \in TrackIds, L \in Lists}
    \cup {[u \in TrackIds |-> IF u = t THEN L ELSE M] :
              t \in TrackIds, L \in Lists, M \in OtherLists}

RecentInputs ==
    {[u \in {t} |-> L] : t \in TrackIds, L \in SeqsUpTo(SortRecords, MaxLen)}

\* a set of indices as the list show_sequences would return it
RECURSIVE SetToList(_)
SetToList(S) ==
    IF S = {} THEN <<>>
    ELSE LET m == CHOOSE x \in S : \A y \in S : x <= y
         IN  <<m>> \o SetToList(S \ {m})

InitStore ==
    /\ s_store \in StoreInputs
    /\ s_op = [name |-> "init", t |-> 0, arg |-> <<>>]
    /\ s_out = <<>>
    /\ PassIdle /\ GridIdle /\ CanvasIdle

InitRecent ==
    /\ s_store \in RecentInputs
    /\ s_op = [name |-> "init", t |-> 0, arg |-> <<>>]
    /\ s_out = <<>>
    /\ PassIdle /\ GridIdle /\ CanvasIdle

StoreAdd ==
    /\ s_op.name = "init"
    /\ \E t \in TrackIds, a \in AddInputs :
          /\ s_op' = [name |-> "add", t |-> t, arg |-> a]
          /\ s_out' = adding_sequences(s_store, t, TRUE, a[1], a[2], a[3])
    /\ UNCHANGED <<s_store, passVars, gridVars, canvasVars>>

StoreRemove ==
    /\ s_op.name = "init"
    /\ \E t \in TrackIds, R \in SUBSET (0..MaxLen) :
          /\ s_op' = [name |-> "remove", t |-> t, arg |-> R]
          /\ s_out' = remove_sequences(s_store, t, SetToList(R))
    /\ UNCHANGED <<s_store, passVars, gridVars, canvasVars>>

StoreSaveLoad ==
    /\ s_op.name = "init"
    /\ s_op' = [name |-> "saveload", t |-> 0, arg |-> <<>>]
    /\ s_out' = [file  |-> save_sequences(s_store),
                 store |-> load_sequences(save_sequences(s_store))]
    /\ UNCHANGED <<s_store, passVars, gridVars, canvasVars>>

StoreRecent ==
    /\ s_op.name = "init"
    /\ \E t \in TrackIds, k \in 1..(MaxLen + 1) :
          /\ s_op' = [name |-> "recent", t |-> t, arg |-> k]
          /\ s_out' = show_sequences(s_store, t, k, {}).shown
    /\ UNCHANGED <<s_store, passVars, gridVars, canvasVars>>

NextStore == StoreAdd \/ StoreRemove \/ StoreSaveLoad

SpecStore == InitStore /\ [][NextStore]_vars

NextRecent == StoreRecent

SpecRecent == InitRecent /\ [][NextRecent]_vars

-----------------------------------------------------------------------------
(* Claims about the store operations.                                      *)

\* the (j+1)-th smallest element of a set of integers
NthOf(S, j) == CHOOSE x \in S : Cardinality({y \in S : y < x}) = j

\* (first_frame, last_frame, track_id, visible_number) <= in dictionary order
LexLeq(a, b) ==
    \/ a[1] < b[1]
    \/ a[1] = b[1] /\ a[2] < b[2]
    \/ a[1] = b[1] /\ a[2] = b[2] /\ a[3] < b[3]
    \/ a[1] = b[1] /\ a[2] = b[2] /\ a[3] = b[3] /\ a[4] <= b[4]

\* C1: save_sequences followed by load_sequences returns the store saved:
\* the same integer keys (written as decimal strings in the file) and, for
\* each key, the same records in the same order.
C1_RoundTrip ==
    s_op.name = "saveload" =>
        /\ s_out.file.exists
        /\ \A ks \in DOMAIN s_out.file.text : ks \in Seq({"-"} \cup Elems(DigitChars))
        /\ Cardinality(DOMAIN s_out.file.text) = Cardinality(DOMAIN s_store)
        /\ DOMAIN s_out.store = DOMAIN s_store
        /\ \A t \in DOMAIN s_store :
              /\ Len(s_out.store[t]) = Len(s_store[t])
              /\ \A i \in 1..Len(s_store[t]) : s_out.store[t][i] = s_store[t][i]

C1_Witness ==
    /\ s_op.name = "saveload"
    /\ DOMAIN s_store = TrackIds
    /\ \E t \in DOMAIN s_store : s_store[t] = <<>>
    /\ \E t \in DOMAIN s_store : Len(s_store[t]) = MaxLen /\ s_store[t][2][4] = -1
    /\ s_out.store = s_store

\* C2: add appends [first_frame, last_frame, t, visible_number] as the last
\* element of t's list (created if absent); earlier records keep their
\* positions, the list grows by exactly one even when an equal record is
\* present, and the other tracks' lists are unchanged.
C2_AddAppends ==
    s_op.name = "add" =>
        LET t   == s_op.t
            old == ListOf(s_store, t)
            new == s_out[t]
        IN  /\ DOMAIN s_out = DOMAIN s_store \cup {t}
            /\ Len(new) = Len(old) + 1
            /\ new[Len(new)] = <<s_op.arg[1], s_op.arg[2], t, s_op.arg[3]>>
            /\ \A i \in 1..Len(old) : new[i] = old[i]
            /\ \A u \in DOMAIN s_store \ {t} : s_out[u] = s_store[u]

C2_Witness ==
    /\ s_op.name = "add"
    /\ s_op.t \in DOMAIN s_store
    /\ DOMAIN s_store = TrackIds
    /\ <<s_op.arg[1], s_op.arg[2], s_op.t, s_op.arg[3]>> \in Elems(s_store[s_op.t])
    /\ Len(s_out[s_op.t]) = Len(s_store[s_op.t]) + 1

C2_WitnessNewKey ==
    /\ s_op.name = "add"
    /\ s_op.t \notin DOMAIN s_store
    /\ DOMAIN s_store # {}
    /\ Len(s_out[s_op.t]) = 1

\* C3: remove keeps exactly the entries whose original position is not in
\* R, in their original order; indices that are no position of the list
\* have no effect; the key stays even when the list becomes empty; other
\* lists are unchanged; and the listing of the new list shows only entries
\* that come from original positions outside R.
C3_RemoveFilters ==
    (s_op.name = "remove" /\ s_op.t \in DOMAIN s_store) =>
        LET t    == s_op.t
            R    == s_op.arg
            old  == s_store[t]
            kept == (0..(Len(old) - 1)) \ R
            new  == s_out[t]
        IN  /\ DOMAIN s_out = DOMAIN s_store
            /\ Len(new) = Cardinality(kept)
            /\ \A j \in 0..(Len(new) - 1) : new[j + 1] = old[NthOf(kept, j) + 1]
            /\ \A u \in DOMAIN s_store \ {t} : s_out[u] = s_store[u]
            /\ \A k \in 1..(MaxLen + 1) :
                  LET rows == show_sequences(s_out, t, k, {}).shown
                  IN  \A j \in 1..Len(rows) :
                        /\ NthOf(kept, rows[j][1]) \notin R
                        /\ rows[j][2] = old[NthOf(kept, rows[j][1]) + 1]

C3_Witness ==
    /\ s_op.name = "remove"
    /\ s_op.t \in DOMAIN s_store
    /\ DOMAIN s_store = TrackIds
    /\ Len(s_store[s_op.t]) = MaxLen
    /\ s_op.arg = {0, MaxLen}
    /\ Len(s_out[s_op.t]) = MaxLen - 1

C3_WitnessEmptied ==
    /\ s_op.name = "remove"
    /\ s_op.t \in DOMAIN s_store
    /\ Len(s_store[s_op.t]) = 2
    /\ s_op.arg = {0, 1}
    /\ s_out[s_op.t] = <<>>

\* C4: the listing produces exactly min(k, n) pairs (i, r) with pairwise
\* distinct positions i of the stored list and r = L[i], in ascending
\* dictionary order of the record; every record not produced is <= every
\* produced one; an absent track produces nothing.
C4_Recent ==
    s_op.name = "recent" =>
        LET t    == s_op.t
            k    == s_op.arg
            rows == s_out
        IN  IF t \notin DOMAIN s_store THEN rows = <<>>
            ELSE LET L  == s_store[t]
                     n  == Len(L)
                     ix == {rows[j][1] : j \in 1..Len(rows)}
                 IN  /\ Len(rows) = Min(k, n)
                     /\ Cardinality(ix) = Len(rows)
                     /\ ix \subseteq 0..(n - 1)
                     /\ \A j \in 1..Len(rows) : rows[j][2] = L[rows[j][1] + 1]
                     /\ \A a, b \in 1..Len(rows) :
                           a < b => LexLeq(rows[a][2], rows[b][2])
                     /\ \A i \in (0..(n - 1)) \ ix : \A j \in 1..Len(rows) :
                           LexLeq(L[i + 1], rows[j][2])

C4_Witness ==
    /\ s_op.name = "recent"
    /\ s_op.t \in DOMAIN s_store
    /\ Len(s_store[s_op.t]) = MaxLen
    /\ s_op.arg = 2
    /\ Len(s_out) = 2
    /\ s_out[1][1] > s_out[2][1]
    /\ s_out[1][2] # s_out[2][2]

C4_WitnessAbsent ==
    /\ s_op.name = "recent"
    /\ s_op.t \notin DOMAIN s_store
    /\ s_out = <<>>

-----------------------------------------------------------------------------
(* Spec: the render passes of labeling on one archive.  Every widget       *)
(* interaction re-runs labeling once; at most one button is True in a pass.*)

Init ==
    /\ PassIdle /\ StoreIdle /\ GridIdle /\ CanvasIdle

RunPass(trk, addButton, addArgs, buttons, ev) ==
    \E pass \in {labeling(file, trk, addButton, addArgs, buttons)} :
        /\ loaded' = pass.loaded
        /\ view' = pass.view
        /\ deleted' = pass.deleted
        /\ sequences' = pass.sequences
        /\ file' = pass.file
        /\ track_id' = trk
        /\ event' = ev
        /\ UNCHANGED <<storeVars, gridVars, canvasVars>>

\* the page is opened, or a slider or the track id is changed
PassRerun ==
    \E trk \in TrackIds :
        RunPass(trk, FALSE, <<0, 0, 0>>, {}, [kind |-> "rerun", arg |-> <<>>, shown |-> <<>>])

\* "Add this sequence" is clicked on the page the last pass drew
PassAdd ==
    /\ event.kind # "start"
    /\ Len(ListOf(load_sequences(file), track_id)) < MaxSeqs
    /\ \E a \in AddInputs :
          RunPass(track_id, TRUE, a, {}, [kind |-> "add", arg |-> a, shown |-> <<>>])

\* the Remove button with key remove_i is clicked on the page the last pass drew
PassRemove ==
    \E j \in 1..Len(view) :
        RunPass(track_id, FALSE, <<0, 0, 0>>, {view[j][1]},
                [kind |-> "remove", arg |-> view[j][1], shown |-> view[j][2]])

Next == PassRerun \/ PassAdd \/ PassRemove

Spec == Init /\ [][Next]_vars

-----------------------------------------------------------------------------
(* Claims about the render passes.                                         *)

OwnKey(store) ==
    \A t \in DOMAIN store : \A i \in 1..Len(store[t]) : store[t][i][3] = t

\* C8: after any sequence of passes from a missing file, every record
\* stored under key t has t as its third field, in memory and in the file
\* as it is loaded back.
C8_TrackIdIsKey ==
    /\ OwnKey(sequences)
    /\ OwnKey(load_sequences(file))

C8_Witness ==
    /\ DOMAIN sequences = TrackIds
    /\ \A t \in TrackIds : Len(sequences[t]) >= 2
    /\ DOMAIN load_sequences(file) = TrackIds
    /\ event.kind = "remove" /\ Len(deleted) = 1

\* C9: every pass loads the store from the file (the empty store when the
\* file is missing), applies the add, then the remove, then saves; the file
\* left by a pass loads back to the in-memory store of that pass, the next
\* pass loads exactly that store, and the track's list after the pass is the
\* loaded list plus the added record minus the removed positions, once each.
C9_PassStep ==
    /\ file'.exists
    /\ loaded' = (IF file.exists THEN sequences ELSE EmptyStore)
    /\ load_sequences(file') = sequences'
    /\ LET t     == track_id'
           base  == ListOf(loaded', t)
           grown == IF event'.kind = "add"
                    THEN Append(base, <<event'.arg[1], event'.arg[2], t, event'.arg[3]>>)
                    ELSE base
           gone  == {deleted'[j][1] : j \in 1..Len(deleted')}
           kept  == (0..(Len(grown) - 1)) \ gone
           new   == ListOf(sequences', t)
       IN  /\ gone \subseteq 0..(Len(grown) - 1)
           /\ Cardinality(gone) = Len(deleted')
           /\ event'.kind # "remove" => deleted' = <<>>
           /\ event'.kind = "add" => t \in DOMAIN sequences'
           /\ Len(new) = Cardinality(kept)
           /\ \A j \in 0..(Len(new) - 1) : new[j + 1] = grown[NthOf(kept, j) + 1]
           /\ \A u \in TrackIds \ {t} :
                 /\ u \in DOMAIN sequences' <=> u \in DOMAIN loaded'
                 /\ ListOf(sequences', u) = ListOf(loaded', u)

C9_Persistence == [][C9_PassStep]_vars

C9_Witness ==
    /\ event.kind = "remove"
    /\ Len(deleted) = 1
    /\ Len(ListOf(loaded, track_id)) = MaxSeqs
    /\ Len(ListOf(sequences, track_id)) = MaxSeqs - 1
    /\ load_sequences(file) = sequences
    /\ DOMAIN sequences = TrackIds

\* C10: the record a pass deletes for a click on the button with key
\* remove_i is the record that was drawn beside that button on the page the
\* user clicked on.
C10_RemovesDisplayed ==
    event.kind = "remove" =>
        \A j \in 1..Len(deleted) : deleted[j][2] = event.shown

-----------------------------------------------------------------------------
(* SpecGrid: the grid and the detailed view for every choice of sliders.   *)

GridInputs ==
    [mode           : {"init"},
     n_rows         : 1..MaxRows,
     images_per_row : (1..MaxCols) \cup {ImagesPerRowMin},
     stride         : 1..MaxStride,
     n_frames       : 1..MaxFrames,
     frame_no       : 0..(MaxFrames - 1)]

InitGrid ==
    /\ g_in \in {g \in GridInputs : g.frame_no < g.n_frames}
    /\ g_cells = <<>>
    /\ PassIdle /\ StoreIdle /\ CanvasIdle

DrawGrid ==
    /\ g_in.mode = "init"
    /\ g_in' = [g_in EXCEPT !.mode = "grid"]
    /\ g_cells' = grid_rows(g_in.frame_no, FramesOf(g_in.n_frames),
                            g_in.images_per_row, g_in.stride, g_in.n_rows)
    /\ UNCHANGED <<passVars, storeVars, canvasVars>>

DrawDetail ==
    /\ g_in.mode = "init"
    /\ g_in' = [g_in EXCEPT !.mode = "detail", !.stride = 1, !.n_rows = 1]
    /\ g_cells' = detailed_view(g_in.frame_no, FramesOf(g_in.n_frames),
                                g_in.images_per_row)
    /\ UNCHANGED <<passVars, storeVars, canvasVars>>

NextGrid == DrawGrid \/ DrawDetail

SpecGrid == InitGrid /\ [][NextGrid]_vars

\* C5: the grid addresses exactly rows*cols cells, and the cell at
\* (row, col) has absolute frame index
\* center_frame + row*cols*stride + (col - (cols-1)//2)*stride.
C5_GridAddressing ==
    g_in.mode = "grid" =>
        LET rows == g_in.n_rows
            cols == g_in.images_per_row
        IN  /\ Len(g_cells) = rows * cols
            /\ \A row \in 0..(rows - 1), col \in 0..(cols - 1) :
                  LET cell == g_cells[row * cols + col + 1]
                  IN  /\ cell.row = row
                      /\ cell.col = col
                      /\ cell.abs_no = g_in.frame_no + row * cols * g_in.stride
                                         + (col - ((cols - 1) \div 2)) * g_in.stride

C5_Witness ==
    /\ g_in.mode = "grid"
    /\ g_in.n_rows = MaxRows
    /\ g_in.images_per_row = MaxCols
    /\ g_in.stride = MaxStride
    /\ Len(g_cells) = MaxRows * MaxCols
    /\ g_cells[1].abs_no < 0

\* C6: a cell is the zero-filled blank of size (800//cols, 800//cols, 3)
\* exactly when its absolute index is < 0 or >= the number of frames; such
\* a cell reads no stored frame and raises no error; a cell whose index a
\* is in range is built from frames[a].
C6_OutOfRange ==
    \A c \in 1..Len(g_cells) :
        LET cell == g_cells[c]
            side == DisplayWidth \div g_in.images_per_row
            out  == cell.abs_no < 0 \/ cell.abs_no >= g_in.n_frames
        IN  /\ cell.image.kind # "IndexError"
            /\ cell.image.kind = "zeros" <=> out
            /\ out => cell.image.of = -1 /\ cell.image.shape = <<side, side, 3>>
            /\ ~out => cell.image.kind = "frame" /\ cell.image.of = cell.abs_no

C6_Witness ==
    /\ g_in.mode = "grid"
    /\ g_in.n_frames = 2
    /\ \E c \in 1..Len(g_cells) : g_cells[c].abs_no = -3 /\ g_cells[c].image.kind = "zeros"
    /\ \E c \in 1..Len(g_cells) : g_cells[c].abs_no = -1 /\ g_cells[c].image.kind = "zeros"
    /\ \E c \in 1..Len(g_cells) : g_cells[c].abs_no = 1 /\ g_cells[c].image.kind = "frame"
    /\ \E c \in 1..Len(g_cells) : g_cells[c].abs_no = 2 /\ g_cells[c].image.kind = "zeros"

-----------------------------------------------------------------------------
(* SpecCanvas: canvas(frames, n, size), one step per loop iteration.       *)

InitCanvas ==
    /\ c_in \in [m : 0..MaxCanvasFrames, n : 1..MaxN, size : 1..MaxSize]
    /\ c_idx = 0
    /\ c_image = Zeros(c_in.n, c_in.size)
    /\ c_pc = "loop"
    /\ PassIdle /\ StoreIdle /\ GridIdle

\* one iteration of `for idx, bbox in enumerate(frames)`
CanvasPlace ==
    /\ c_pc = "loop"
    /\ c_idx < c_in.m
    /\ \E r \in {SliceAssign(c_image, c_in.n, c_in.size, c_idx)} :
          /\ c_image' = r.image
          /\ c_pc' = IF ~r.ok THEN "ValueError"
                     ELSE IF c_idx = c_in.n * c_in.n - 1 THEN "done"   \* break
                     ELSE "loop"
    /\ c_idx' = c_idx + 1
    /\ UNCHANGED <<c_in, passVars, storeVars, gridVars>>

\* the frames are exhausted: return image
CanvasReturn ==
    /\ c_pc = "loop"
    /\ c_idx = c_in.m
    /\ c_pc' = "done"
    /\ UNCHANGED <<c_in, c_idx, c_image, passVars, storeVars, gridVars>>

NextCanvas == CanvasPlace \/ CanvasReturn

SpecCanvas == InitCanvas /\ [][NextCanvas]_vars

\* C7: canvas returns an image of n*size rows and columns in which tile
\* (idx // n, idx % n) holds frame idx for exactly the idx < min(m, n*n) and
\* every other tile holds the initial zero; no ValueError is raised.
C7_Mosaic ==
    /\ c_pc # "ValueError"
    /\ c_pc = "done" =>
          LET n    == c_in.n
              size == c_in.size
              side == 0..(n * size - 1)
          IN  /\ DOMAIN c_image = side \X side
              /\ c_idx = Min(c_in.m, n * n)
              /\ \A i \in 0..(n - 1), j \in 0..(n - 1) :
                    \A r \in (i * size)..((i + 1) * size - 1),
                       c \in (j * size)..((j + 1) * size - 1) :
                        c_image[<<r, c>>] = IF i * n + j < Min(c_in.m, n * n)
                                            THEN i * n + j ELSE -1

C7_Witness ==
    /\ c_pc = "done"
    /\ c_in.n = MaxN
    /\ c_in.size = MaxSize
    /\ c_in.m = MaxN * MaxN + 1
    /\ c_image[<<MaxSize, MaxSize>>] = MaxN + 1

C7_WitnessUnfilled ==
    /\ c_pc = "done"
    /\ c_in.n = 2
    /\ c_in.m = 3
    /\ c_image[<<c_in.size, c_in.size>>] = -1
    /\ c_image[<<c_in.size, 0>>] = 2

=============================================================================
